---- MODULE Spec2Model ----
(***************************************************************************)
(* Model of the yip_daikin_fcu climate entity (climate.py): the LRC        *)
(* checksum, the frame codec (validate / decode / build), the state        *)
(* interpreter and the intent handlers of YipDaikinFCUClimate.             *)
(*                                                                         *)
(* Python strings are TLA+ strings; s[a:b] is Slice(s, a, b).  A raised    *)
(* exception of a pure function is the value Raise (-1 for integers).      *)
(* Temperatures are integers in tenths of a degree Celsius.                *)
(***************************************************************************)
EXTENDS Integers, Sequences, FiniteSets, TLC

(***************************************************************************)
(* Python string primitives.                                               *)
(***************************************************************************)
Min(a, b) == IF a < b THEN a ELSE b

\* s[a:b] for 0 <= a, 0 <= b (clamped to the length, empty when a >= b)
Slice(s, a, b) == SubSeq(s, a + 1, Min(b, Len(s)))

\* s[a:]
From(s, a) == SubSeq(s, a + 1, Len(s))

UPPERCASE == "ABCDEFGHIJKLMNOPQRSTUVWXYZ"
LOWERCASE == "abcdefghijklmnopqrstuvwxyz"
HEXDIGITS == "0123456789ABCDEF"

\* the one-character strings of s
Chars(s) == {SubSeq(s, i, i) : i \in 1..Len(s)}

\* 0-based index of the one-character string c in s (s.index(c) for c in s)
IndexIn(s, c) == (CHOOSE i \in 1..Len(s) : SubSeq(s, i, i) = c) - 1

\* c.upper() for the lower-case letters
UpperOf == [c \in Chars(LOWERCASE) |-> Slice(UPPERCASE, IndexIn(LOWERCASE, c),
                                                   IndexIn(LOWERCASE, c) + 1)]

UpperChar(c) == IF c \in DOMAIN UpperOf THEN UpperOf[c] ELSE c

\* s.upper()
RECURSIVE UpperFrom(_, _, _)
UpperFrom(s, i, acc) ==
    IF i >= Len(s) THEN acc
    ELSE UpperFrom(s, i + 1, acc \o UpperChar(Slice(s, i, i + 1)))

Upper(s) == UpperFrom(s, 0, "")

\* s.replace(c, "") for a one-character c
RECURSIVE RemoveFrom(_, _, _, _)
RemoveFrom(s, c, i, acc) ==
    IF i >= Len(s) THEN acc
    ELSE RemoveFrom(s, c, i + 1,
                    IF Slice(s, i, i + 1) = c THEN acc ELSE acc \o Slice(s, i, i + 1))

Remove(s, c) == RemoveFrom(s, c, 0, "")

\* s.lstrip(chars), s.rstrip(chars), s.strip(chars), chars a set of characters
RECURSIVE LStrip(_, _)
LStrip(s, chars) ==
    IF s # "" /\ Slice(s, 0, 1) \in chars THEN LStrip(From(s, 1), chars) ELSE s

RECURSIVE RStrip(_, _)
RStrip(s, chars) ==
    IF s # "" /\ Slice(s, Len(s) - 1, Len(s)) \in chars
    THEN RStrip(Slice(s, 0, Len(s) - 1), chars)
    ELSE s

Strip(s, chars) == RStrip(LStrip(s, chars), chars)

StartsWith(s, c) == Slice(s, 0, 1) = c
EndsWith(s, c) == s # "" /\ Slice(s, Len(s) - 1, Len(s)) = c

\* The characters of the texts the model handles are hexadecimal digits of
\* either case, other letters, and the delimiters ( ) { } : and -; int() and
\* bytes.fromhex are modelled on these (no whitespace, sign, underscore or 0x).

\* value of one hexadecimal digit, upper or lower case
HexValOf == [c \in Chars(HEXDIGITS) \cup Chars("abcdef") |-> IndexIn(HEXDIGITS, UpperChar(c))]

\* -1 for a character that is no hexadecimal digit
HexVal(c) == IF c \in DOMAIN HexValOf THEN HexValOf[c] ELSE -1

\* int(s, 16): -1 stands for ValueError (empty text or a character that is no
\* hexadecimal digit)
RECURSIVE IntBase16From(_, _, _)
IntBase16From(s, i, acc) ==
    IF i >= Len(s) THEN acc
    ELSE LET d == HexVal(Slice(s, i, i + 1))
         IN  IF d < 0 THEN -1 ELSE IntBase16From(s, i + 1, 16 * acc + d)

IntBase16(s) == IF s = "" THEN -1 ELSE IntBase16From(s, 0, 0)

\* the exception value of bytes.fromhex
Raise == <<-1>>

\* bytes.fromhex(s): the sequence of byte values, Raise on an odd number of
\* digits or a character that is no hexadecimal digit
RECURSIVE FromHexFrom(_, _, _)
FromHexFrom(s, i, acc) ==
    IF i >= Len(s) THEN acc
    ELSE IF i + 1 >= Len(s) THEN Raise
    ELSE LET hi == HexVal(Slice(s, i, i + 1))
             lo == HexVal(Slice(s, i + 1, i + 2))
         IN  IF hi < 0 \/ lo < 0 THEN Raise
             ELSE FromHexFrom(s, i + 2, Append(acc, 16 * hi + lo))

FromHex(s) == FromHexFrom(s, 0, <<>>)

\* format(n, "X") for n >= 0
RECURSIVE HexStr(_)
HexStr(n) ==
    IF n < 16 THEN Slice(HEXDIGITS, n, n + 1)
    ELSE HexStr(n \div 16) \o Slice(HEXDIGITS, n % 16, (n % 16) + 1)

\* f"{n:02X}" for n >= 0: at least two digits, upper case
Hex02X(n) == IF n < 16 THEN "0" \o HexStr(n) ELSE HexStr(n)

DIGITS == "0123456789"

\* value of one decimal digit
DecValOf == [c \in Chars(DIGITS) |-> IndexIn(DIGITS, c)]

\* the digits of s from position i on as a decimal number, -1 when one of the
\* characters is no decimal digit
RECURSIVE IntBase10From(_, _, _)
IntBase10From(s, i, acc) ==
    IF i >= Len(s) THEN acc
    ELSE LET c == Slice(s, i, i + 1)
         IN  IF c \in DOMAIN DecValOf THEN IntBase10From(s, i + 1, 10 * acc + DecValOf[c])
             ELSE -1

\* the result of int(s) when it raises ValueError
ValueError == [ok |-> FALSE, value |-> 0]

\* int(s): surrounding blanks are dropped, one sign may lead, the rest must be
\* one or more decimal digits (the texts of the model hold no underscore)
int(s) ==
    LET t == Strip(s, {" "})
        signed == t # "" /\ Slice(t, 0, 1) \in {"+", "-"}
        digits == IF signed THEN From(t, 1) ELSE t
        n == IntBase10From(digits, 0, 0)
    IN  IF digits = "" \/ n < 0 THEN ValueError
        ELSE [ok |-> TRUE, value |-> IF signed /\ Slice(t, 0, 1) = "-" THEN 0 - n ELSE n]

\* f"{n:02X}" for any integer n: the sign counts for the width
Format02X(n) == IF n < 0 THEN "-" \o HexStr(0 - n) ELSE Hex02X(n)

\* sum(data)
RECURSIVE SumFrom(_, _, _)
SumFrom(data, i, acc) ==
    IF i > Len(data) THEN acc ELSE SumFrom(data, i + 1, acc + data[i])

Sum(data) == SumFrom(data, 1, 0)

(***************************************************************************)
(* Frame + command utilities (climate.py, module level).                   *)
(***************************************************************************)
\* calculate_lrc(data) with a seeded fault: the one's complement, without the + 1
LrcOnesComplement(data) == (255 - (Sum(data) % 256)) % 256

\* calculate_lrc(data)
calculate_lrc(data) == (255 - (Sum(data) % 256) + 1) % 256

\* int(byte_count_hex[2:4] + byte_count_hex[0:2], 16) of frame[22:26]
byte_count_of(frame) ==
    LET byte_count_hex == Slice(frame, 22, 26)
    IN  IntBase16(Slice(byte_count_hex, 2, 4) \o Slice(byte_count_hex, 0, 2))

\* validate_lrc_from_frame(frame); every exception is caught and gives False
validate_lrc_from_frame(frame) ==
    LET byte_count == byte_count_of(frame)
        data_end == 26 + byte_count * 2
        data_bytes == FromHex(Slice(frame, 0, data_end))
        received_lrc == Slice(frame, data_end, data_end + 2)
    IN  IF byte_count < 0 THEN FALSE
        ELSE IF data_bytes = Raise THEN FALSE
        ELSE Hex02X(calculate_lrc(data_bytes)) = Upper(received_lrc)

\* the value build_payload has when bytes.fromhex raises
BuildError == "ValueError"

\* build_payload with a seeded fault: braces instead of parentheses
build_payload_braces(mac, function, start_reg, reg_count, data) ==
    LET mac_n == Remove(Remove(Upper(mac), ":"), "-")
        header == mac_n \o "0000" \o function \o start_reg \o reg_count
        byte_count == Len(data) \div 2
        byte_count_hex == Hex02X(byte_count % 256) \o Hex02X(byte_count \div 256)
        payload_base == FromHex(header \o byte_count_hex \o data)
    IN  IF payload_base = Raise THEN BuildError
        ELSE "{" \o header \o byte_count_hex \o data
                 \o Hex02X(calculate_lrc(payload_base)) \o "}"

\* build_payload with a seeded fault: the byte count is the number of hex characters
build_payload_charcount(mac, function, start_reg, reg_count, data) ==
    LET mac_n == Remove(Remove(Upper(mac), ":"), "-")
        header == mac_n \o "0000" \o function \o start_reg \o reg_count
        byte_count == Len(data)
        byte_count_hex == Hex02X(byte_count % 256) \o Hex02X(byte_count \div 256)
        payload_base == FromHex(header \o byte_count_hex \o data)
    IN  IF payload_base = Raise THEN BuildError
        ELSE "(" \o header \o byte_count_hex \o data
                 \o Hex02X(calculate_lrc(payload_base)) \o ")"

\* build_payload(mac, function, start_reg, reg_count, data)
build_payload(mac, function, start_reg, reg_count, data) ==
    LET mac_n == Remove(Remove(Upper(mac), ":"), "-")
        header == mac_n \o "0000" \o function \o start_reg \o reg_count
        byte_count == Len(data) \div 2
        byte_count_lo == byte_count % 256
        byte_count_hi == byte_count \div 256
        byte_count_hex == Hex02X(byte_count_lo) \o Hex02X(byte_count_hi)
        payload_base == FromHex(header \o byte_count_hex \o data)
    IN  IF payload_base = Raise THEN BuildError
        ELSE "(" \o header \o byte_count_hex \o data
                 \o Hex02X(calculate_lrc(payload_base)) \o ")"

(***************************************************************************)
(* Decoding (YipDaikinFCUClimate._decode_daikin_frame).                    *)
(***************************************************************************)
\* the return value None
None == [none |-> TRUE]

\* to_int(offset) of the nested function: int(data_hex[offset:offset+2], 16)
to_int(data_hex, offset) == IntBase16(Slice(data_hex, offset, offset + 2))

\* Snapshot with a seeded fault: the offsets counted in bytes (two characters each)
SnapshotByteOffsets(data_hex) ==
    [power |-> to_int(data_hex, 8),
     fan_speed |-> to_int(data_hex, 16),
     set_temp |-> to_int(data_hex, 20) * 5,
     sweep_status |-> to_int(data_hex, 28),
     mode |-> to_int(data_hex, 32),
     room_temp |-> 256 * to_int(data_hex, 40) + to_int(data_hex, 36)]

\* the dictionary built at lines 216-223; set_temp (to_int(10) / 2 degrees) and
\* room_temp are held in tenths of a degree
Snapshot(data_hex) ==
    [power |-> to_int(data_hex, 4),
     fan_speed |-> to_int(data_hex, 8),
     set_temp |-> to_int(data_hex, 10) * 5,
     sweep_status |-> to_int(data_hex, 14),
     mode |-> to_int(data_hex, 16),
     room_temp |-> 256 * to_int(data_hex, 20) + to_int(data_hex, 18)]

\* the offsets a to_int call of Snapshot reads
SnapshotOffsets == {4, 8, 10, 14, 16, 18, 20}

\* the try block with a seeded fault: a field whose to_int raises reads 0
extract_fields_lenient(frame) ==
    LET byte_count == byte_count_of(frame)
        data_hex == Slice(frame, 26, 26 + byte_count * 2)
        all == Snapshot(data_hex)
    IN  IF byte_count < 0 THEN None
        ELSE [f \in DOMAIN all |->
                 IF \E o \in SnapshotOffsets : to_int(data_hex, o) < 0 /\ all[f] < 0
                 THEN 0 ELSE all[f]]

\* the try block of _decode_daikin_frame: a to_int that raises gives None
extract_fields(frame) ==
    LET byte_count == byte_count_of(frame)
        data_hex == Slice(frame, 26, 26 + byte_count * 2)
    IN  IF byte_count < 0 THEN None
        ELSE IF \E o \in SnapshotOffsets : to_int(data_hex, o) < 0 THEN None
        ELSE Snapshot(data_hex)

\* _decode_daikin_frame with a seeded fault: the LRC is not validated
decode_without_lrc(payload_str) ==
    IF ~StartsWith(payload_str, "{") \/ ~EndsWith(payload_str, "}") THEN None
    ELSE LET frame == Strip(payload_str, {"{", "}"})
         IN  IF Len(frame) < 30 THEN None ELSE extract_fields(frame)

\* _decode_daikin_frame with a seeded fault: the delimiters are stripped, not required
decode_without_delimiters(payload_str) ==
    LET frame == Strip(payload_str, {"{", "}"})
    IN  IF Len(frame) < 30 THEN None
        ELSE IF ~validate_lrc_from_frame(frame) THEN None
        ELSE extract_fields(frame)

\* _decode_daikin_frame(payload_str)
decode_daikin_frame(payload_str) ==
    IF ~StartsWith(payload_str, "{") \/ ~EndsWith(payload_str, "}") THEN None
    ELSE LET frame == Strip(payload_str, {"{", "}"})
         IN  IF Len(frame) < 30 THEN None
             ELSE IF ~validate_lrc_from_frame(frame) THEN None
             ELSE extract_fields(frame)

\* no warning-level record
NoWarning == ""

\* the texts of the two _LOGGER.warning calls of _decode_daikin_frame
INVALID_LRC == "Invalid LRC in frame"
DECODE_FAILED == "Decode failed"

\* the warning-level record _decode_daikin_frame(payload_str) logs (lines 206, 225)
decode_warning(payload_str) ==
    IF ~StartsWith(payload_str, "{") \/ ~EndsWith(payload_str, "}") THEN NoWarning
    ELSE LET frame == Strip(payload_str, {"{", "}"})
         IN  IF Len(frame) < 30 THEN NoWarning
             ELSE IF ~validate_lrc_from_frame(frame) THEN INVALID_LRC
             ELSE IF extract_fields(frame) = None THEN DECODE_FAILED
             ELSE NoWarning

(***************************************************************************)
(* State of one YipDaikinFCUClimate entity and of its surroundings.        *)
(***************************************************************************)
VARIABLES
    config_mac,           \* self._config["mac"], as entered in the config flow
    hvac_mode,            \* self._attr_hvac_mode
    target_temperature,   \* self._attr_target_temperature, in tenths of a degree
    current_temperature,  \* self._attr_current_temperature, in tenths of a degree
    fan_mode,             \* self._attr_fan_mode
    swing_mode,           \* self._attr_swing_mode
    tasks,                \* the intent handler calls so far, in call order
    events,               \* what the calls did on the bus, in order
    msg,                  \* the inbound MQTT message: in flight, then received
    result,               \* what _decode_daikin_frame returned for msg
    telemetry_mode,       \* history: hvac mode of the last snapshot applied since the last intent
    lrc_call,             \* arguments and results of one checksum verification
    subscribed,           \* whether the subscriptions of self._unsub_listeners are active
    warning               \* the warning-level record of the last _decode_daikin_frame

climate == <<hvac_mode, target_temperature, current_temperature, fan_mode, swing_mode>>

vars == <<config_mac, hvac_mode, target_temperature, current_temperature, fan_mode,
          swing_mode, tasks, events, msg, result, telemetry_mode, lrc_call, subscribed, warning>>

(***************************************************************************)
(* Bounds and input sets.                                                  *)
(***************************************************************************)
\* the number of intent handler calls in one behaviour
MaxIntents == 2

\* the number of data bytes of a frame body given to the checksum functions
MaxLrcData == 2

\* the number of data bytes of a write command built directly
MaxCommandData == 2

\* MAC addresses as a user may type them: plain, and with separators in lower case
MacInputs == {"600194657C39", "60:01:94-65:7c:39"}

\* the data segment of the example frame of the module docstring (21 bytes)
ExampleData == <<4, 6, 0, 5, 7, 40, 0, 0, 1, 44, 1, 200, 0, 133,
                 238, 238, 0, 48, 48, 48, 79>>

\* the example frame of the module docstring (line 35)
ExampleFrame == "{600194657C39000000001515000406000507280000012C01C80085EEEE003030304F53}"

NoMsg == [base |-> "", payload |-> "", delivered |-> TRUE]

\* str(n) for n >= 0
RECURSIVE Str(_)
Str(n) ==
    IF n < 10 THEN Slice("0123456789", n, n + 1)
    ELSE Str(n \div 10) \o Slice("0123456789", n % 10, (n % 10) + 1)

\* the hex text of a sequence of byte values
RECURSIVE HexOf(_)
HexOf(bytes) == IF bytes = <<>> THEN "" ELSE Hex02X(Head(bytes)) \o HexOf(Tail(bytes))

\* the sequences of at most n values of vals
SeqsUpTo(vals, n) == UNION {[1..k -> vals] : k \in 0..n}

\* the checksum the device appends: the byte that makes the frame sum to 0 mod 256
DeviceLrc(bytes) == LET s == Sum(bytes) IN CHOOSE c \in 0..255 : (s + c) % 256 = 0

\* a telemetry frame as the device sends it: address, reserved, function 00,
\* start register 00, register count, little-endian byte count, data, checksum
DeviceFrame(data) ==
    LET n == Len(data)
        body == "600194657C39" \o "0000" \o "00" \o "00" \o Hex02X(n)
                \o Hex02X(n % 256) \o Hex02X(n \div 256) \o HexOf(data)
    IN  "{" \o body \o Hex02X(DeviceLrc(FromHex(body))) \o "}"

\* data segments the device reports to the entity: the example frame (power 0),
\* and the same with power 1 and mode dry
On(mode) == [ExampleData EXCEPT ![3] = 1, ![9] = mode]
TelemetryInputs == {ExampleData, On(2)}

\* data segments given to the codec: also the other modes, no data, one byte,
\* and the first 10 and the first 11 bytes
CodecData ==
    TelemetryInputs \cup {On(0), On(1), On(7), <<>>, <<1>>,
                          SubSeq(ExampleData, 1, 10), SubSeq(ExampleData, 1, 11)}

\* the texts a transport fault puts in the place of one byte
CorruptTexts == {"00", "01", "80", "FF", "ee", "0G"}

\* token with the two characters of byte p of the frame replaced by text
Corrupted(token, p, text) ==
    Slice(token, 0, 1 + 2 * p) \o text \o From(token, 3 + 2 * p)

\* the bytes of the data segment and the checksum byte of a token
DataAndLrcBytes(token) == 13..(((Len(token) - 2) \div 2) - 1)

\* the ways a token loses its delimiters or its tail
MalformKinds == {"no_open", "no_close", "parentheses", "short"}

Malformed(token, kind) ==
    CASE kind = "no_open" -> From(token, 1)
      [] kind = "no_close" -> Slice(token, 0, Len(token) - 1)
      [] kind = "parentheses" -> "(" \o Slice(token, 1, Len(token) - 1) \o ")"
      [] kind = "short" -> Slice(token, 0, 30) \o "}"

\* the power codes other than 1, and the mode codes reported under them
OffPowerCodes == {0, 2, 255}
OffModeCodes == {0, 1, 2, 3, 128, 255}

\* the fan speed and sweep codes: the codes of the maps and their neighbours
OptionCodes == 0..16 \cup {255}

\* the set-temp bytes: 0, 15.5, 16, 30, 30.5, 40 and 127.5 degrees
SetTempCodes == {0, 31, 32, 60, 61, 80, 255}

\* data segments given to the state interpreter: the example frame switched
\* on with every mode code, with the other power codes, and, in cool mode,
\* with the fan speed codes, the sweep codes and the set-temp bytes
InterpreterData ==
    {On(md) : md \in 0..255}
    \cup {[ExampleData EXCEPT ![3] = pw, ![9] = md] : pw \in OffPowerCodes, md \in OffModeCodes}
    \cup {[On(1) EXCEPT ![5] = v] : v \in OptionCodes}
    \cup {[On(1) EXCEPT ![6] = v] : v \in SetTempCodes}
    \cup {[On(1) EXCEPT ![8] = v] : v \in OptionCodes}

\* the frames of these data segments
TelemetryFrames == {DeviceFrame(d) : d \in TelemetryInputs}
CodecFrames == {DeviceFrame(d) : d \in CodecData}
InterpreterFrames == {DeviceFrame(d) : d \in InterpreterData}

\* every payload a message of the model carries
Payloads ==
    InterpreterFrames \cup
    UNION {{f} \cup {Corrupted(f, p, t) : p \in DataAndLrcBytes(f), t \in CorruptTexts}
               \cup {Malformed(f, k) : k \in MalformKinds} : f \in CodecFrames}

\* _decode_daikin_frame tabulated over the payloads
decode_table == [p \in Payloads |-> decode_daikin_frame(p)]

\* the warning of _decode_daikin_frame tabulated over the payloads
warning_table == [p \in Payloads |-> decode_warning(p)]

\* _attr_fan_modes and _attr_swing_modes (lines 141-142)
attr_fan_modes == {"3", "4", "5", "6", "7", "AUTO"}
attr_swing_modes == {"SWEEP ON", "1", "2", "3", "4", "5", "AUTO"}

\* names passed to async_set_fan_mode: the advertised ones, AUTO in other
\* letter cases, other integers (with a blank, signed, above 255), and texts
\* that are no integer
FanModeInputs ==
    attr_fan_modes \cup {"auto", "Auto", "10", "255", " 5", "-1", "300",
                         "HIGH", "", "3.5", "0x5", "A"}

\* names passed to async_set_swing_mode: the advertised ones, other letter
\* cases, and names that are not recognized
SwingModeInputs ==
    attr_swing_modes \cup {"sweep on", "Sweep On", "auto", "", "0", "6", "08", "OFF", "SWEEP"}

\* the value of fan_hex when int(fan_mode) raises
FanModeError == "ValueError"

\* fan_hex of async_set_fan_mode (line 294)
fan_hex_of(name) ==
    IF Upper(name) = "AUTO" THEN "0A"
    ELSE IF int(name).ok THEN Format02X(int(name).value)
    ELSE FanModeError

\* swing_hex with a seeded fault: the name is matched as it is written
swing_hex_case_sensitive(text) ==
    CASE text = "SWEEP ON" -> "00"
      [] text \in {"1", "2", "3", "4", "5"} -> "0" \o text
      [] text = "AUTO" -> "08"
      [] OTHER -> "00"

\* swing_hex of async_set_swing_mode (lines 299-303)
swing_hex_of(text) ==
    LET name == Upper(text)
    IN  CASE name = "SWEEP ON" -> "00"
          [] name \in {"1", "2", "3", "4", "5"} -> "0" \o name
          [] name = "AUTO" -> "08"
          [] OTHER -> "00"

\* the registers of the write commands (lines 269-310)
Registers == {"02", "04", "05", "07", "08"}

\* the data of the write commands: every single byte, and the sequences of at
\* most MaxCommandData of a few byte values
CommandData ==
    {Hex02X(v) : v \in 0..255} \cup {HexOf(b) : b \in SeqsUpTo({0, 1, 255}, MaxCommandData)}
    \cup ({fan_hex_of(f) : f \in FanModeInputs} \ {FanModeError})

\* build_payload(mac, "01", reg, "01", data) tabulated over the commands
build_table == [mac \in MacInputs, reg \in Registers, data \in CommandData |->
            build_payload(mac, "01", reg, "01", data)]

(***************************************************************************)
(* Init: the state after __init__ (lines 144-160).                         *)
(***************************************************************************)
InitEntity(macs) ==
    /\ config_mac \in macs
    /\ hvac_mode = "off"
    /\ target_temperature = 250
    /\ current_temperature = 270
    /\ fan_mode = "AUTO"
    /\ swing_mode = "SWEEP ON"
    /\ tasks = <<>>
    /\ events = <<>>
    /\ msg = NoMsg
    /\ result = None
    /\ telemetry_mode = "none"
    /\ subscribed = TRUE
    /\ warning = NoWarning

NoCall == [body |-> "", claimed |-> "", state |-> "none", lrc |-> 0, valid |-> FALSE]

\* the entity of the example topics of the module docstring (line 28)
Init == InitEntity({"600194657C39"}) /\ lrc_call = NoCall

(***************************************************************************)
(* State interpreter (_update_state_from_decoded).                         *)
(***************************************************************************)
\* lines 239-246 with a seeded fault: the mode code is mapped whatever the power
hvac_mode_ignoring_power(decoded) ==
    CASE decoded.mode = 0 -> "fan_only"
      [] decoded.mode = 1 -> "cool"
      [] decoded.mode = 2 -> "dry"
      [] OTHER -> "off"

\* lines 239-246
hvac_mode_of(decoded) ==
    IF decoded.power = 1
    THEN CASE decoded.mode = 0 -> "fan_only"
           [] decoded.mode = 1 -> "cool"
           [] decoded.mode = 2 -> "dry"
           [] OTHER -> "off"
    ELSE "off"

\* FAN_SPEED_MAP with a seeded fault: no entry for the code 10
fan_mode_without_code_10(fan_speed) ==
    CASE fan_speed \in 3..7 -> Str(fan_speed)
      [] fan_speed = 255 -> "AUTO"
      [] OTHER -> Str(fan_speed)

\* FAN_SPEED_MAP.get(fan_speed, str(fan_speed))
fan_mode_of(fan_speed) ==
    CASE fan_speed \in 3..7 -> Str(fan_speed)
      [] fan_speed \in {10, 255} -> "AUTO"
      [] OTHER -> Str(fan_speed)

\* SWING_MAP.get(sweep_status, str(sweep_status))
swing_mode_of(sweep_status) ==
    CASE sweep_status = 0 -> "SWEEP ON"
      [] sweep_status \in 1..5 -> Str(sweep_status)
      [] sweep_status \in {8, 255} -> "AUTO"
      [] OTHER -> Str(sweep_status)

\* _update_state_from_decoded(decoded)
update_state_from_decoded(decoded) ==
    /\ hvac_mode' = hvac_mode_of(decoded)
    /\ target_temperature' = decoded.set_temp
    /\ current_temperature' = decoded.room_temp
    /\ fan_mode' = fan_mode_of(decoded.fan_speed)
    /\ swing_mode' = swing_mode_of(decoded.sweep_status)

(***************************************************************************)
(* Inbound messages.                                                       *)
(***************************************************************************)
\* the device broadcasts a telemetry frame
Broadcast(frame) ==
    /\ msg.delivered
    /\ msg' = [base |-> frame, payload |-> frame, delivered |-> FALSE]
    /\ UNCHANGED <<config_mac, climate, tasks, events, result, telemetry_mode, lrc_call, subscribed, warning>>

\* a transport fault: byte p of the frame in flight (byte 13 + k is data byte k,
\* the byte after the data is the checksum) is replaced by another text
Corrupt(p, text) ==
    /\ ~msg.delivered
    /\ msg.payload = msg.base
    /\ p \in DataAndLrcBytes(msg.base)
    /\ Upper(Slice(msg.base, 1 + 2 * p, 3 + 2 * p)) # Upper(text)
    /\ msg' = [msg EXCEPT !.payload = Corrupted(msg.base, p, text)]
    /\ UNCHANGED <<config_mac, climate, tasks, events, result, telemetry_mode, lrc_call, subscribed, warning>>

\* a transport fault: the token in flight loses a delimiter or its tail
Malform(kind) ==
    /\ ~msg.delivered
    /\ msg.payload = msg.base
    /\ msg' = [msg EXCEPT !.payload = Malformed(msg.base, kind)]
    /\ UNCHANGED <<config_mac, climate, tasks, events, result, telemetry_mode, lrc_call, subscribed, warning>>

\* message_received(msg), the callback subscribed in async_added_to_hass
message_received ==
    /\ subscribed
    /\ ~msg.delivered
    /\ msg' = [msg EXCEPT !.delivered = TRUE]
    /\ result' = decode_table[msg.payload]
    /\ warning' = warning_table[msg.payload]
    /\ IF result' # None
       THEN /\ update_state_from_decoded(result')
            /\ telemetry_mode' = hvac_mode'
       ELSE UNCHANGED <<climate, telemetry_mode>>
    /\ UNCHANGED <<config_mac, tasks, events, lrc_call, subscribed>>

\* async_will_remove_from_hass(): every unsubscribe callback is called; the
\* handler calls that are suspended are left as they are
async_will_remove_from_hass ==
    /\ subscribed
    /\ subscribed' = FALSE
    /\ UNCHANGED <<config_mac, climate, tasks, events, msg, result, telemetry_mode,
                   lrc_call, warning>>

(***************************************************************************)
(* Command senders and user control (lines 257-320).                       *)
(***************************************************************************)
\* one call of an intent handler: its arguments, the register and data of the
\* first _send_write_command it makes ("" when it makes none), and where it is
Task(op, mode, temp, reg, data, pc) ==
    [op |-> op, mode |-> mode, temp |-> temp, reg |-> reg, data |-> data, pc |-> pc]

Published(by, payload) == [kind |-> "publish", by |-> by, payload |-> payload]
Slept(by) == [kind |-> "sleep", by |-> by, payload |-> ""]

\* kwargs.get("temperature") when the key is absent
NoTemperature == 0 - 1

\* _send_write_command(reg, hex_data) called by task `by`: the log after it.
\* When build_payload raises, nothing is published.
send_write_command(log, by, reg, hex_data) ==
    LET payload == build_table[config_mac, reg, hex_data]
    IN  IF payload = BuildError THEN log ELSE Append(log, Published(by, payload))

\* whether _send_write_command returns (instead of raising)
sends(reg, hex_data) == build_table[config_mac, reg, hex_data] # BuildError

\* _send_power_command with a seeded fault: the value goes to the mode register
send_power_command_mode_register(log, by, turn_on) ==
    send_write_command(log, by, "08", IF turn_on THEN "01" ELSE "00")

\* _send_power_command(turn_on)
send_power_command(log, by, turn_on) ==
    send_write_command(log, by, "02", IF turn_on THEN "01" ELSE "00")

\* a handler that awaits one _send_write_command(reg, hex_data) and returns
OneCommand(op, mode, temp, reg, hex_data) ==
    /\ tasks' = Append(tasks, Task(op, mode, temp, reg, hex_data,
                                   IF sends(reg, hex_data) THEN "done" ELSE "raised"))
    /\ events' = send_write_command(events, Len(tasks) + 1, reg, hex_data)
    /\ telemetry_mode' = "none"
    /\ UNCHANGED <<config_mac, climate, msg, result, lrc_call, subscribed, warning>>

\* a handler that awaits _send_power_command(turn_on) and returns
PowerCommand(op, mode, turn_on) ==
    /\ tasks' = Append(tasks, Task(op, mode, NoTemperature, "02",
                                   IF turn_on THEN "01" ELSE "00",
                                   IF sends("02", IF turn_on THEN "01" ELSE "00")
                                   THEN "done" ELSE "raised"))
    /\ events' = send_power_command(events, Len(tasks) + 1, turn_on)
    /\ telemetry_mode' = "none"
    /\ UNCHANGED <<config_mac, climate, msg, result, lrc_call, subscribed, warning>>

\* a handler that returns without sending
NoCommand(op, mode, temp) ==
    /\ tasks' = Append(tasks, Task(op, mode, temp, "", "", "done"))
    /\ telemetry_mode' = "none"
    /\ UNCHANGED <<config_mac, climate, events, msg, result, lrc_call, subscribed, warning>>

\* _send_write_command(reg, hex_data) called on its own
write_command(reg, hex_data) ==
    OneCommand("_send_write_command", "", NoTemperature, reg, hex_data)

\* async_turn_on()
async_turn_on == PowerCommand("turn_on", "", TRUE)

\* async_turn_off()
async_turn_off == PowerCommand("turn_off", "", FALSE)

\* the data of async_set_temperature with a seeded fault: round(temp * 2)
temperature_hex_rounded(temp) == Hex02X((2 * temp + 5) \div 10)

\* f"{int(temp * 2):02X}" for temp >= 0 in tenths of a degree
temperature_hex(temp) == Hex02X((2 * temp) \div 10)

\* async_set_temperature(temperature=temp)
async_set_temperature(temp) ==
    IF temp = NoTemperature
    THEN NoCommand("set_temperature", "", temp)
    ELSE OneCommand("set_temperature", "", temp, "05", temperature_hex(temp))

\* a handler that raises before it sends
Raises(op, mode) ==
    /\ tasks' = Append(tasks, Task(op, mode, NoTemperature, "", "", "raised"))
    /\ telemetry_mode' = "none"
    /\ UNCHANGED <<config_mac, climate, events, msg, result, lrc_call, subscribed, warning>>

\* async_set_fan_mode with a seeded fault: a name that is no integer sends 00
async_set_fan_mode_lenient(name) ==
    OneCommand("set_fan_mode", name, NoTemperature, "04",
               IF fan_hex_of(name) = FanModeError THEN "00" ELSE fan_hex_of(name))

\* async_set_fan_mode(fan_mode), the argument called name
async_set_fan_mode(name) ==
    IF fan_hex_of(name) = FanModeError THEN Raises("set_fan_mode", name)
    ELSE OneCommand("set_fan_mode", name, NoTemperature, "04", fan_hex_of(name))

\* async_set_swing_mode(swing_mode), the argument called name
async_set_swing_mode(name) ==
    OneCommand("set_swing_mode", name, NoTemperature, "07", swing_hex_of(name))

\* the mode_hex dictionary of async_set_hvac_mode; "" stands for None
mode_hex_of(mode) ==
    CASE mode = "fan_only" -> "00"
      [] mode = "cool" -> "01"
      [] mode = "dry" -> "02"
      [] OTHER -> ""

\* async_set_hvac_mode(hvac_mode) up to its first suspension
async_set_hvac_mode(mode) ==
    IF mode = "off" THEN PowerCommand("set_hvac_mode", mode, FALSE)
    ELSE IF mode_hex_of(mode) = "" THEN NoCommand("set_hvac_mode", mode, NoTemperature)
    ELSE /\ tasks' = Append(tasks, Task("set_hvac_mode", mode, NoTemperature,
                            "08", mode_hex_of(mode),
                            IF sends("08", mode_hex_of(mode)) THEN "sleep" ELSE "raised"))
         /\ events' = send_write_command(events, Len(tasks) + 1, "08", mode_hex_of(mode))
         /\ telemetry_mode' = "none"
         /\ UNCHANGED <<config_mac, climate, msg, result, lrc_call, subscribed, warning>>

\* lines 289-290 with a seeded fault: no settle wait before the power command
power_after_mode(i) ==
    /\ tasks[i].pc = "sleep"
    /\ events' = send_power_command(events, i, TRUE)
    /\ tasks' = [tasks EXCEPT ![i].pc = "assign"]
    /\ UNCHANGED <<config_mac, climate, msg, result, telemetry_mode, lrc_call, subscribed, warning>>

\* lines 289-290 of task i: asyncio.sleep(0.3) returns and the power command is sent
power_after_settle(i) ==
    /\ tasks[i].pc = "sleep"
    /\ events' = send_power_command(Append(events, Slept(i)), i, TRUE)
    /\ tasks' = [tasks EXCEPT ![i].pc = IF sends("02", "01") THEN "assign" ELSE "raised"]
    /\ UNCHANGED <<config_mac, climate, msg, result, telemetry_mode, lrc_call, subscribed, warning>>

\* line 291 of task i: the publish has returned, the requested mode is stored
assign_hvac_mode(i) ==
    /\ tasks[i].pc = "assign"
    /\ hvac_mode' = tasks[i].mode
    /\ tasks' = [tasks EXCEPT ![i].pc = "done"]
    /\ UNCHANGED <<config_mac, target_temperature, current_temperature, fan_mode,
                   swing_mode, events, msg, result, telemetry_mode, lrc_call, subscribed, warning>>

(***************************************************************************)
(* Spec: the entity under user intents and telemetry.                      *)
(***************************************************************************)
\* the host calls the handlers of an entity it holds
CanCall == subscribed /\ Len(tasks) < MaxIntents

\* the modes a caller may pass to async_set_hvac_mode ("heat" is not supported)
HvacModeInputs == {"off", "cool", "dry", "fan_only", "heat"}

\* temperatures passed to async_set_temperature, in tenths of a degree
TemperatureInputs == {NoTemperature, 213, 215}

Next ==
    \/ \E frame \in TelemetryFrames : Broadcast(frame)
    \/ message_received
    \/ CanCall /\ async_turn_on
    \/ CanCall /\ async_turn_off
    \/ \E temp \in TemperatureInputs : CanCall /\ async_set_temperature(temp)
    \/ \E mode \in HvacModeInputs : CanCall /\ async_set_hvac_mode(mode)
    \/ \E i \in 1..Len(tasks) : power_after_settle(i)
    \/ \E i \in 1..Len(tasks) : assign_hvac_mode(i)
    \/ async_will_remove_from_hass

Spec == Init /\ [][Next]_vars

(***************************************************************************)
(* SpecCodec: the frame codec and the state interpreter on frames the      *)
(* device sends, whole or damaged in transit.                              *)
(***************************************************************************)
NextCodec ==
    \/ \E frame \in CodecFrames : Broadcast(frame)
    \/ \E p \in 13..34, text \in CorruptTexts : Corrupt(p, text)
    \/ \E kind \in MalformKinds : Malform(kind)
    \/ message_received

SpecCodec == Init /\ [][NextCodec]_vars

(***************************************************************************)
(* SpecInterpreter: the state interpreter on checksum-valid frames with     *)
(* every code of one field, received by a new entity or after telemetry.   *)
(***************************************************************************)
NextInterpreter ==
    \/ \E frame \in InterpreterFrames :
          msg.base \in {""} \cup TelemetryFrames /\ Broadcast(frame)
    \/ message_received

SpecInterpreter == Init /\ [][NextInterpreter]_vars

(***************************************************************************)
(* SpecCommand: one command sent by a new entity, for every supported      *)
(* temperature, for every register and data of the command inputs, and    *)
(* for the fan mode and swing mode names.                                  *)
(***************************************************************************)
DEFAULT_MIN_TEMP == 16
DEFAULT_MAX_TEMP == 30

\* the supported range, in tenths of a degree
SupportedTemperatures == (10 * DEFAULT_MIN_TEMP)..(10 * DEFAULT_MAX_TEMP)

InitCommand == InitEntity(MacInputs) /\ lrc_call = NoCall

NextCommand ==
    \/ \E temp \in SupportedTemperatures : tasks = <<>> /\ async_set_temperature(temp)
    \/ \E reg \in Registers, data \in CommandData : tasks = <<>> /\ write_command(reg, data)
    \/ \E name \in FanModeInputs : tasks = <<>> /\ async_set_fan_mode(name)
    \/ \E name \in SwingModeInputs : tasks = <<>> /\ async_set_swing_mode(name)

SpecCommand == InitCommand /\ [][NextCommand]_vars

(***************************************************************************)
(* SpecLrc: calculate_lrc and validate_lrc_from_frame on frame bodies      *)
(* (header, byte count, data) paired with every claimed checksum text.     *)
(***************************************************************************)
\* the first 11 bytes of a write command and of a telemetry frame
LrcHeaders == {"600194657C390000010501", "600194657C390000000015"}

\* the byte values of the data of the bodies
LrcByteValues == {0, 127, 255}

\* header, little-endian byte count and data
LrcBodies ==
    {h \o Hex02X(Len(d) % 256) \o Hex02X(Len(d) \div 256) \o HexOf(d) :
        h \in LrcHeaders, d \in SeqsUpTo(LrcByteValues, MaxLrcData)}

\* f"{n:02x}" for n in 0..255
LOWERHEXDIGITS == "0123456789abcdef"
Hex02x(n) == Slice(LOWERHEXDIGITS, n \div 16, (n \div 16) + 1)
             \o Slice(LOWERHEXDIGITS, n % 16, (n % 16) + 1)

\* every byte as a claimed checksum, in upper and in lower case
ClaimedTexts == {Hex02X(c) : c \in 0..255} \cup {Hex02x(c) : c \in 0..255}

InitLrc ==
    /\ InitEntity({"600194657C39"})
    /\ lrc_call \in {[body |-> b, claimed |-> c, state |-> "pending", lrc |-> 0,
                      valid |-> FALSE] : b \in LrcBodies, c \in ClaimedTexts}

\* calculate_lrc on the bytes of the body, validate_lrc_from_frame on the body
\* followed by the claimed checksum
check_lrc ==
    /\ lrc_call.state = "pending"
    /\ lrc_call' = [lrc_call EXCEPT
                       !.state = "done",
                       !.lrc = calculate_lrc(FromHex(lrc_call.body)),
                       !.valid = validate_lrc_from_frame(lrc_call.body \o lrc_call.claimed)]
    /\ UNCHANGED <<config_mac, climate, tasks, events, msg, result, telemetry_mode,
                   subscribed, warning>>

NextLrc == check_lrc

SpecLrc == InitLrc /\ [][NextLrc]_vars

(***************************************************************************)
(* Properties.  The fields of a frame are read at their positions in the   *)
(* text between the delimiters (section 6 of the specification).           *)
(***************************************************************************)
Inner(token) == Slice(token, 1, Len(token) - 1)
FunctionOf(payload) == Slice(Inner(payload), 16, 18)
RegisterOf(payload) == Slice(Inner(payload), 18, 20)
CountOf(payload) == Slice(Inner(payload), 20, 22)
ByteCountOf(payload) ==
    IntBase16(Slice(Inner(payload), 24, 26)) * 256 + IntBase16(Slice(Inner(payload), 22, 24))
DataOf(payload) == Slice(Inner(payload), 26, Len(Inner(payload)) - 2)

\* data byte k (from 0) of a token of hexadecimal text, -1 when it has none
DataByte(token, k) ==
    LET text == Slice(DataOf(token), 2 * k, 2 * k + 2)
    IN  IF Len(text) = 2 THEN IntBase16(text) ELSE -1

EventsBy(i) == SelectSeq(events, LAMBDA e : e.by = i)
IsWrite(e, reg, data) ==
    /\ e.kind = "publish"
    /\ FunctionOf(e.payload) = "01"
    /\ RegisterOf(e.payload) = reg
    /\ CountOf(e.payload) = "01"
    /\ DataOf(e.payload) = data

\* C1: a set_hvac_mode(COOL | DRY | FAN_ONLY) call emits the write of register 08
\* with the mapped code (fan-only 00, cool 01, dry 02), then waits the settle
\* interval, then emits the write of register 02 with 01, and nothing else:
\* before the wait is over its events are the mode write alone, afterwards they
\* are exactly mode write, settle wait, power write, in this order.
C1_ModeSettlePower ==
    \A i \in 1..Len(tasks) :
        (tasks[i].op = "set_hvac_mode" /\ tasks[i].mode \in {"cool", "dry", "fan_only"}) =>
            LET mine == EventsBy(i)
                code == CASE tasks[i].mode = "fan_only" -> "00"
                          [] tasks[i].mode = "cool" -> "01"
                          [] tasks[i].mode = "dry" -> "02"
            IN  /\ Len(mine) = (IF tasks[i].pc = "sleep" THEN 1 ELSE 3)
                /\ IsWrite(mine[1], "08", code)
                /\ Len(mine) = 3 => (mine[2].kind = "sleep" /\ IsWrite(mine[3], "02", "01"))

\* C1 witness: a set_hvac_mode(COOL) call has finished, and the command of a
\* turn_off call made during its settle wait lies between its two commands
C1_Witness ==
    /\ Len(tasks) = 2
    /\ tasks[1].op = "set_hvac_mode" /\ tasks[1].mode = "cool" /\ tasks[1].pc = "done"
    /\ tasks[2].op = "turn_off"
    /\ Len(events) = 4 /\ events[2].by = 2

\* C2 as claimed: every frame text a command publishes is wrapped in the brace
\* delimiters that decode requires, its first character { and its last }.
C2_Claimed_Braces ==
    \A k \in 1..Len(events) :
        events[k].kind = "publish" =>
            (StartsWith(events[k].payload, "{") /\ EndsWith(events[k].payload, "}"))

\* C2 as amended: every frame text a command publishes is wrapped in
\* parentheses, its first character ( and its last ), so decode's delimiter
\* check rejects it and decoding it gives no result.
C2_Parentheses ==
    \A k \in 1..Len(events) :
        events[k].kind = "publish" =>
            /\ Slice(events[k].payload, 0, 1) = "("
            /\ From(events[k].payload, Len(events[k].payload) - 1) = ")"
            /\ decode_daikin_frame(events[k].payload) = None

\* C2 witness: the entity configured with a MAC with separators has published
\* the write of register 08 with data 01
C2_Witness ==
    /\ config_mac = "60:01:94-65:7c:39"
    /\ Len(events) = 1
    /\ IsWrite(events[1], "08", "01")

\* one byte of the data segment or the checksum byte of b differs from a (as a
\* byte: the case of a digit is no difference), everything else is the same
OneByteOff(a, b) ==
    /\ Len(a) = Len(b)
    /\ \E p \in DataAndLrcBytes(a) :
          /\ Upper(Slice(a, 1 + 2 * p, 3 + 2 * p)) # Upper(Slice(b, 1 + 2 * p, 3 + 2 * p))
          /\ Slice(a, 0, 1 + 2 * p) = Slice(b, 0, 1 + 2 * p)
          /\ From(a, 3 + 2 * p) = From(b, 3 + 2 * p)

\* C3: when the message received differs in exactly one byte of the data segment
\* or in the checksum byte from a frame that decodes, decoding it gives no
\* result, and receiving it leaves the climate state as it was.
C3_CorruptedRejected ==
    [][(/\ ~msg.delivered
        /\ msg'.delivered
        /\ decode_daikin_frame(msg.base) # None
        /\ OneByteOff(msg.base, msg.payload))
       => (result' = None /\ UNCHANGED climate)]_vars

\* C3 witness: after telemetry switched the entity to dry, a frame with data
\* byte 2 (the power) changed from 01 to 00 was received and rejected
C3_Witness ==
    /\ msg.delivered
    /\ hvac_mode = "dry"
    /\ msg.base = DeviceFrame(On(1))
    /\ msg.payload = Corrupted(msg.base, 15, "00")
    /\ result = None

\* C4: a token without the opening delimiter, or without the closing one, or
\* with fewer than 30 characters between the delimiters decodes to no result.
C4_MalformedRejected ==
    (/\ msg.delivered
     /\ msg # NoMsg
     /\ \/ Slice(msg.payload, 0, 1) # "{"
        \/ From(msg.payload, Len(msg.payload) - 1) # "}"
        \/ Len(msg.payload) - 2 < 30)
    => result = None

\* C4 witness: a checksum-valid frame without data (28 characters) was received
\* whole, after a frame had been decoded
C4_Witness ==
    /\ msg.delivered
    /\ msg.payload = DeviceFrame(<<>>)
    /\ validate_lrc_from_frame(Inner(msg.payload))
    /\ hvac_mode = "dry"

\* C5 as claimed: the fields of a decoded snapshot are the data bytes 4 (power),
\* 8 (fan speed), 10 (set-temp, halved), 14 (sweep), 16 (mode), and
\* 256 * byte 20 + byte 18 (room-temp, in tenths).
C5_Claimed_ByteOffsets ==
    (msg.delivered /\ result # None) =>
        /\ result.power = DataByte(msg.payload, 4)
        /\ result.fan_speed = DataByte(msg.payload, 8)
        /\ result.set_temp = 5 * DataByte(msg.payload, 10)
        /\ result.sweep_status = DataByte(msg.payload, 14)
        /\ result.mode = DataByte(msg.payload, 16)
        /\ result.room_temp = 256 * DataByte(msg.payload, 20) + DataByte(msg.payload, 18)

\* C5 as amended: the offsets count hexadecimal characters, so the fields of a
\* decoded snapshot are the data bytes 2 (power), 4 (fan speed), 5 (set-temp,
\* halved: 5 tenths per unit), 7 (sweep), 8 (mode), and 256 * byte 10 + byte 9
\* (room-temp, in tenths).
C5_CharacterOffsets ==
    (msg.delivered /\ result # None) =>
        /\ result.power = DataByte(msg.payload, 2)
        /\ result.fan_speed = DataByte(msg.payload, 4)
        /\ result.set_temp = 5 * DataByte(msg.payload, 5)
        /\ result.sweep_status = DataByte(msg.payload, 7)
        /\ result.mode = DataByte(msg.payload, 8)
        /\ result.room_temp = 256 * DataByte(msg.payload, 10) + DataByte(msg.payload, 9)

\* C5 witness: a frame with power 1 and the unknown mode code 7 was decoded
C5_Witness ==
    /\ msg.delivered
    /\ msg.payload = DeviceFrame(On(7))
    /\ result # None
    /\ result.mode = 7

\* C6 as claimed: the example frame of the module docstring decodes (its
\* checksum verifies) to power 1, fan speed 6 and mode 1.
C6_Claimed_Example ==
    (msg.delivered /\ msg.payload = ExampleFrame) =>
        (result # None /\ result.power = 1 /\ result.fan_speed = 6 /\ result.mode = 1)

\* C6 as amended: the example frame of the module docstring decodes (its
\* checksum verifies) to power 0, fan speed 7 and mode 1.
C6_ExampleDecodes ==
    (msg.delivered /\ msg.payload = ExampleFrame) =>
        (result # None /\ result.power = 0 /\ result.fan_speed = 7 /\ result.mode = 1)

\* C6 witness: the example frame was received and applied (20.0 and 30.0 degrees)
C6_Witness ==
    /\ msg.delivered
    /\ msg.payload = ExampleFrame
    /\ target_temperature = 200
    /\ current_temperature = 300

\* the events of a set_temperature call for a supported temperature are one
\* write of register 05 with one data byte whose value satisfies Value(temp, v)
OneTemperatureWrite(Value(_, _)) ==
    \A i \in 1..Len(tasks) :
        (tasks[i].op = "set_temperature" /\ tasks[i].temp \in SupportedTemperatures) =>
            LET mine == EventsBy(i)
            IN  /\ Len(mine) = 1
                /\ IsWrite(mine[1], "05", DataOf(mine[1].payload))
                /\ Len(DataOf(mine[1].payload)) = 2
                /\ Value(tasks[i].temp, IntBase16(DataOf(mine[1].payload)))

\* C7 as claimed: set_temperature(t) for t in [16, 30] emits one write of
\* register 05 whose byte is t * 2 rounded to the nearest integer.
C7_Claimed_Rounded ==
    OneTemperatureWrite(LAMBDA temp, v : 10 * v - 5 <= 2 * temp /\ 2 * temp < 10 * v + 5)

\* C7 as amended: set_temperature(t) for t in [16, 30] emits one write of
\* register 05 whose byte is t * 2 truncated to an integer (int(t * 2)); for
\* t = 21.5 the data is 2B.
C7_Truncated ==
    /\ OneTemperatureWrite(LAMBDA temp, v : 10 * v <= 2 * temp /\ 2 * temp < 10 * (v + 1))
    /\ \A i \in 1..Len(tasks) :
          (tasks[i].op = "set_temperature" /\ tasks[i].temp = 215) =>
              DataOf(events[1].payload) = "2B"

\* C7 witness: set_temperature(21.3) has published data 2A
C7_Witness ==
    /\ Len(tasks) = 1 /\ tasks[1].op = "set_temperature" /\ tasks[1].temp = 213
    /\ Len(events) = 1 /\ DataOf(events[1].payload) = "2A"

\* C8: the checksum of the bytes of a body is one byte that makes the sum of
\* the bytes and the checksum 0 modulo 256, and the body followed by a claimed
\* checksum validates exactly when the claimed byte is that checksum.
C8_LrcRoundTrip ==
    lrc_call.state = "done" =>
        /\ lrc_call.lrc \in 0..255
        /\ (Sum(FromHex(lrc_call.body)) + lrc_call.lrc) % 256 = 0
        /\ lrc_call.valid <=> (IntBase16(lrc_call.claimed) = lrc_call.lrc)

\* C8 witness: a body with two data bytes validated against its checksum
\* written in lower case
C8_Witness ==
    /\ lrc_call.state = "done"
    /\ lrc_call.valid
    /\ Len(lrc_call.body) = 30
    /\ lrc_call.claimed # Upper(lrc_call.claimed)

\* C9: in the text between the delimiters of a published write command with n
\* bytes of data, the little-endian byte count at [22, 26) is n, the data is at
\* [26, 26 + 2n), the checksum ends the text, and validate_lrc_from_frame accepts it.
C9_SelfConsistent ==
    \A k \in 1..Len(events) :
        events[k].kind = "publish" =>
            LET inner == Inner(events[k].payload)
                data == tasks[events[k].by].data
                n == Len(data) \div 2
            IN  /\ ByteCountOf(events[k].payload) = n
                /\ Slice(inner, 26, 26 + 2 * n) = data
                /\ Len(inner) = 26 + 2 * n + 2
                /\ validate_lrc_from_frame(inner)

\* C9 witness: a write command with two bytes of data was published
C9_Witness ==
    /\ Len(events) = 1
    /\ events[1].kind = "publish"
    /\ tasks[1].data = "FF01"

\* C10 as claimed: when the last intent is a set_hvac_mode(COOL | DRY | FAN_ONLY),
\* a valid telemetry frame was decoded after it was issued, and every handler
\* has finished, the hvac mode is the one derived from that telemetry frame.
C10_Claimed_LastTelemetryWins ==
    (/\ Len(tasks) > 0
     /\ tasks[Len(tasks)].op = "set_hvac_mode"
     /\ tasks[Len(tasks)].mode \in {"cool", "dry", "fan_only"}
     /\ \A i \in 1..Len(tasks) : tasks[i].pc = "done"
     /\ telemetry_mode # "none")
    => hvac_mode = telemetry_mode

\* C11 as claimed: once the entity has been torn down (removed from the host),
\* no step publishes an outbound command; in particular the power write of a
\* set_hvac_mode call that was in its settle wait is never published.
C11_Claimed_NoCommandAfterTeardown ==
    [][~subscribed =>
          \A k \in (Len(events) + 1)..Len(events') : events'[k].kind # "publish"]_vars

\* C12: right after a valid telemetry snapshot has been applied, the hvac mode
\* is off when the power is not 1, whatever the mode code; when the power is 1
\* it is fan_only for mode code 0, cool for 1, dry for 2 and off for every
\* other mode code.
C12_ModeFromSnapshot ==
    (msg.delivered /\ result # None) =>
        /\ result.power # 1 => hvac_mode = "off"
        /\ (result.power = 1 /\ result.mode = 0) => hvac_mode = "fan_only"
        /\ (result.power = 1 /\ result.mode = 1) => hvac_mode = "cool"
        /\ (result.power = 1 /\ result.mode = 2) => hvac_mode = "dry"
        /\ (result.power = 1 /\ result.mode \in 3..255) => hvac_mode = "off"

\* C12 witness: a snapshot with power 2 and mode code 1 (cool) was applied
\* after telemetry had switched the entity to dry, and the hvac mode is off
C12_Witness ==
    /\ msg.delivered
    /\ result # None
    /\ result.power = 2 /\ result.mode = 1
    /\ hvac_mode = "off"

\* C15 as claimed: in every state reached by valid telemetry frames, the target
\* temperature of the entity lies in [16, 30] degrees.
C15_Claimed_TargetInRange ==
    (10 * DEFAULT_MIN_TEMP <= target_temperature) /\ (target_temperature <= 10 * DEFAULT_MAX_TEMP)

\* C14 as claimed: a brace-wrapped token of at least 30 characters whose content
\* is not parsable hexadecimal is rejected without a warning-level record, and
\* the invalid-checksum warning is logged exactly for the brace-wrapped tokens
\* of at least 30 characters that parse as hexadecimal and whose checksum does
\* not match.
C14_Claimed_SilentMalformed ==
    (msg.delivered /\ msg # NoMsg) =>
        LET inner == Inner(msg.payload)
            structured == /\ StartsWith(msg.payload, "{")
                          /\ EndsWith(msg.payload, "}")
                          /\ Len(inner) >= 30
        IN  /\ (structured /\ FromHex(inner) = Raise) =>
                   (result = None /\ warning = NoWarning)
            /\ warning = INVALID_LRC <=>
                   (structured /\ FromHex(inner) # Raise /\ ~validate_lrc_from_frame(inner))

\* s is the text of an integer: blanks around, one sign, decimal digits
IntegerText(s) ==
    LET t == Strip(s, {" "})
        u == IF t # "" /\ Slice(t, 0, 1) \in {"+", "-"} THEN From(t, 1) ELSE t
    IN  u # "" /\ \A i \in 1..Len(u) : SubSeq(u, i, i) \in Chars(DIGITS)

\* C13: a set_fan_mode call with a name that is neither AUTO (in any letter
\* case) nor the text of an integer raises before a frame is built: it
\* publishes nothing and the climate state stays as constructed; a call with
\* AUTO in any letter case publishes exactly one write of register 04 with 0A.
C13_FanModeRejected ==
    \A i \in 1..Len(tasks) :
        tasks[i].op = "set_fan_mode" =>
            /\ (Upper(tasks[i].mode) # "AUTO" /\ ~IntegerText(tasks[i].mode)) =>
                   /\ tasks[i].pc = "raised"
                   /\ events = <<>>
                   /\ climate = <<"off", 250, 270, "AUTO", "SWEEP ON">>
            /\ Upper(tasks[i].mode) = "AUTO" =>
                   /\ tasks[i].pc = "done"
                   /\ Len(events) = 1
                   /\ IsWrite(events[1], "04", "0A")

\* C13 witness: set_fan_mode("HIGH") was called and raised
C13_Witness ==
    /\ Len(tasks) = 1
    /\ tasks[1].op = "set_fan_mode" /\ tasks[1].mode = "HIGH"
    /\ tasks[1].pc = "raised"
    /\ events = <<>>

\* C16: a turn_on call, a turn_off call and a set_hvac_mode(OFF) call each
\* publish exactly one command, the write of the power register 02 with 01, 00
\* and 00, so none of them writes the mode register 08; the command of
\* set_hvac_mode(OFF) is the command of turn_off.
C16_PowerOnly ==
    /\ \A i \in 1..Len(tasks) :
          LET mine == EventsBy(i)
          IN  /\ tasks[i].op = "turn_on" =>
                     (Len(mine) = 1 /\ IsWrite(mine[1], "02", "01"))
              /\ tasks[i].op = "turn_off" =>
                     (Len(mine) = 1 /\ IsWrite(mine[1], "02", "00"))
              /\ (tasks[i].op = "set_hvac_mode" /\ tasks[i].mode = "off") =>
                     (Len(mine) = 1 /\ IsWrite(mine[1], "02", "00"))
              /\ (tasks[i].op \in {"turn_on", "turn_off"}
                     \/ (tasks[i].op = "set_hvac_mode" /\ tasks[i].mode = "off")) =>
                     \A k \in 1..Len(mine) : RegisterOf(mine[k].payload) # "08"
    /\ \A i, j \in 1..Len(tasks) :
          (/\ tasks[i].op = "turn_off"
           /\ tasks[j].op = "set_hvac_mode" /\ tasks[j].mode = "off") =>
              EventsBy(i)[1].payload = EventsBy(j)[1].payload

\* C16 witness: a turn_off call and then a set_hvac_mode(OFF) call have run
C16_Witness ==
    /\ Len(tasks) = 2
    /\ tasks[1].op = "turn_off"
    /\ tasks[2].op = "set_hvac_mode" /\ tasks[2].mode = "off"
    /\ Len(events) = 2
    /\ events[1].payload = events[2].payload

\* the six fields of a snapshot, each a value parsed from the frame
AllSixFields(decoded) ==
    /\ DOMAIN decoded = {"power", "fan_speed", "set_temp", "sweep_status", "mode", "room_temp"}
    /\ decoded.power \in 0..255
    /\ decoded.fan_speed \in 0..255
    /\ decoded.set_temp \in {5 * v : v \in 0..255}
    /\ decoded.sweep_status \in 0..255
    /\ decoded.mode \in 0..255
    /\ decoded.room_temp \in 0..65535

\* C17: every result of decoding a received message is either absent or holds
\* all six fields; a brace-wrapped frame whose checksum verifies and whose data
\* segment has fewer than 11 bytes gives no result, and receiving it leaves
\* the climate state as it was.
C17_AllOrNothing ==
    [][(~msg.delivered /\ msg'.delivered) =>
          /\ result' = None \/ AllSixFields(result')
          /\ (/\ StartsWith(msg.payload, "{") /\ EndsWith(msg.payload, "}")
              /\ validate_lrc_from_frame(Inner(msg.payload))
              /\ ByteCountOf(msg.payload) < 11)
             => (result' = None /\ UNCHANGED climate)]_vars

\* C17 witness: after telemetry switched the entity to dry, the checksum-valid
\* frame of the first 10 data bytes was received and gave no result
C17_Witness ==
    /\ msg.delivered
    /\ msg.payload = DeviceFrame(SubSeq(ExampleData, 1, 10))
    /\ validate_lrc_from_frame(Inner(msg.payload))
    /\ result = None
    /\ hvac_mode = "dry"

\* the fan mode and the swing mode the entity shows after the telemetry frame
\* that reports the code in its fan speed byte, in its sweep byte
ShownFanMode(code) ==
    fan_mode_of(decode_daikin_frame(DeviceFrame([On(1) EXCEPT ![5] = code])).fan_speed)
ShownSwingMode(code) ==
    swing_mode_of(decode_daikin_frame(DeviceFrame([On(1) EXCEPT ![8] = code])).sweep_status)

\* C18: for every advertised fan mode name, set_fan_mode publishes a write of
\* register 04 whose code the state interpreter shows as the same name, and
\* for every advertised swing mode name set_swing_mode publishes a write of
\* register 07 whose code the state interpreter shows as the same name; the
\* fan speed code 255 is shown as the code published for AUTO is.
C18_NamesRoundTrip ==
    \A i \in 1..Len(tasks) :
        /\ (tasks[i].op = "set_fan_mode" /\ tasks[i].mode \in attr_fan_modes) =>
               /\ Len(events) = 1
               /\ IsWrite(events[1], "04", DataOf(events[1].payload))
               /\ ShownFanMode(IntBase16(DataOf(events[1].payload))) = tasks[i].mode
               /\ tasks[i].mode = "AUTO" =>
                      ShownFanMode(255) = ShownFanMode(IntBase16(DataOf(events[1].payload)))
        /\ (tasks[i].op = "set_swing_mode" /\ tasks[i].mode \in attr_swing_modes) =>
               /\ Len(events) = 1
               /\ IsWrite(events[1], "07", DataOf(events[1].payload))
               /\ ShownSwingMode(IntBase16(DataOf(events[1].payload))) = tasks[i].mode

\* C18 witness: set_fan_mode("AUTO") has published the code 0A
C18_Witness ==
    /\ Len(tasks) = 1
    /\ tasks[1].op = "set_fan_mode" /\ tasks[1].mode = "AUTO"
    /\ Len(events) = 1
    /\ DataOf(events[1].payload) = "0A"

\* C19: every set_swing_mode call returns and publishes exactly one write of
\* register 07; its value is 00 for SWEEP ON, 01 to 05 for 1 to 5 and 08 for
\* AUTO, the name matched in any letter case, and 00 for every other name.
C19_SwingLenient ==
    \A i \in 1..Len(tasks) :
        tasks[i].op = "set_swing_mode" =>
            LET name == Upper(tasks[i].mode)
                value == CASE name = "SWEEP ON" -> "00"
                           [] name = "1" -> "01"
                           [] name = "2" -> "02"
                           [] name = "3" -> "03"
                           [] name = "4" -> "04"
                           [] name = "5" -> "05"
                           [] name = "AUTO" -> "08"
                           [] OTHER -> "00"
            IN  /\ tasks[i].pc = "done"
                /\ Len(events) = 1
                /\ IsWrite(events[1], "07", value)

\* C19 witness: set_swing_mode("auto") has published the value 08
C19_Witness ==
    /\ Len(tasks) = 1
    /\ tasks[1].op = "set_swing_mode" /\ tasks[1].mode = "auto"
    /\ Len(events) = 1
    /\ IsWrite(events[1], "07", "08")

\* the writes of the power register 02 published so far, in order
PowerWrites ==
    SelectSeq(events, LAMBDA e : e.kind = "publish" /\ RegisterOf(e.payload) = "02")

\* C20 as claimed: when the last intent is a turn_off or a set_hvac_mode(OFF)
\* issued while an earlier set_hvac_mode(COOL | DRY | FAN_ONLY) call was in its
\* settle wait, and every handler has finished, the last write of the power
\* register published is the power-off write (value 00).
C20_Claimed_LastIntentWins ==
    \A i \in 1..Len(tasks) :
        LET j == Len(tasks)
        IN  (/\ i < j
             /\ tasks[i].op = "set_hvac_mode" /\ tasks[i].mode \in {"cool", "dry", "fan_only"}
             /\ \/ tasks[j].op = "turn_off"
                \/ tasks[j].op = "set_hvac_mode" /\ tasks[j].mode = "off"
             /\ \A t \in 1..Len(tasks) : tasks[t].pc = "done"
             /\ \A k, l \in 1..Len(events) :
                   (events[k].by = j /\ events[l].by = i /\ events[l].kind = "sleep") => k < l)
            => (/\ Len(PowerWrites) > 0
                /\ DataOf(PowerWrites[Len(PowerWrites)].payload) = "00")

====
